---- MODULE Spec2Model ----
(***************************************************************************)
(* lawl: a templating engine that runs the Lua script of every <lua> tag   *)
(* of an HTML template and splices the script's `data` in place of the     *)
(* tag (src/src/lib.rs).                                                   *)
(*                                                                         *)
(* Strings are sequences of byte groups (TLA+ strings used as atoms): a    *)
(* text character is one group, a tag is two or three groups, so a byte    *)
(* offset is an index into the flattened template.                         *)
(*                                                                         *)
(* The HTML rewriter (lol_html) and the interpreter (mlua) are libraries;  *)
(* they are modelled by what the calls made in lib.rs do:                  *)
(*  - HtmlRewriter::write consumes every complete token of the chunk and   *)
(*    keeps an incomplete trailing token buffered until a later write or   *)
(*    end(); text inside an element removed with el.remove() is dropped;   *)
(*    content given to end.before() is emitted even though the end tag is  *)
(*    itself removed;                                                      *)
(*  - Lua values are nil, booleans, numbers, strings, functions, tables    *)
(*    and the light userdata `null` that lua.to_value gives for a host     *)
(*    null; globals().get::<String> accepts strings and numbers only;      *)
(*  - string.gsub with a table as replacement looks the first capture up   *)
(*    in the table and keeps the match when the lookup gives nil or false. *)
(***************************************************************************)
EXTENDS Integers, Sequences, FiniteSets, TLC

VARIABLES values, functions, locks, rs, lua, call, log

vars == <<values, functions, locks, rs, lua, call, log>>

-----------------------------------------------------------------------------
(* Bounds *)

\* Largest number of consecutive (not nested) slots of a generated template.
MaxSlots == 2

\* Largest number of insert and remove calls recorded in the log.
MaxOps == 3

\* Largest number of elements of a sequence given to each.
MaxItems == 2

\* Largest number of characters between the tags of a slot that calls each.
MaxText == 3

-----------------------------------------------------------------------------
(* Values: host values kept in the store and Lua values share one shape.   *)

Val(t, n, s) == [t |-> t, n |-> n, s |-> s]

\* No entry under a key of the HashMap.
Absent == Val("absent", 0, <<>>)
\* An integer given to insert (any Serialize value; integers are used here).
SInt(n) == Val("int", n, <<>>)
\* Other Serialize values: a bool, a string, None or (), a Vec of maps
\* (named by the identifiers of its elements), and a value whose Serialize
\* implementation the Lua serializer refuses (such as a u128).
SBool(b) == Val("sbool", IF b THEN 1 ELSE 0, <<>>)
SStr(s) == Val("sstr", 0, s)
SNull == Val("snull", 0, <<>>)
SList(ids) == Val("seq", 0, ids)
SBad == Val("bad", 0, <<>>)

Nil == Val("nil", 0, <<>>)
Bool(b) == Val("bool", IF b THEN 1 ELSE 0, <<>>)
Num(n) == Val("num", n, <<>>)
Str(s) == Val("str", 0, s)
\* The function a prelude fragment defines, named by the fragment.
Fn(name) == Val("fn", 0, <<name>>)
\* mlua's `null`: a light userdata holding the null pointer.
Null == Val("null", 0, <<>>)
\* A Lua table holding the elements ids[1], ids[2], ... in its array part.
Table(ids) == Val("table", 0, ids)

Keys == {"x", "show", "data", "items"}
\* The calls of insert the caller makes.
InsertArgs == {<<"x", SInt(1)>>, <<"show", SInt(1)>>, <<"data", SInt(1)>>}
\* The calls of insert of the caller whose calls are recorded.
LoggedInsertArgs == InsertArgs \cup {<<"x", SInt(2)>>}

PreludeNames == {"show", "hide", "maybe", "format", "each"}
GNames == Keys \cup PreludeNames \cup {"data"}

Renders == {"r1", "r2"}

-----------------------------------------------------------------------------
(* Templates *)

\* The `code` of a <lua> tag that has no code attribute.
NoAttr == "<no code attribute>"

Scripts == {"data='P'", "error()", "data=x", "x='P'", "show(x)", "show=nil"}
Codes == Scripts \cup {NoAttr}

Text(c) == [kind |-> "text", code |-> "", txt |-> c]
Open(c) == [kind |-> "open", code |-> c, txt |-> ""]
Close == [kind |-> "close", code |-> "", txt |-> ""]
\* An incomplete tag at the end of the template, such as `<b`.
Partial == [kind |-> "partial", code |-> "", txt |-> "b"]

\* The bytes of a token in the template.
Bytes(tok) ==
    CASE tok.kind = "text" -> <<tok.txt>>
      [] tok.kind = "open" ->
            IF tok.code = NoAttr THEN <<"<lua", ">">>
            ELSE <<"<lua code=", tok.code, ">">>
      [] tok.kind = "close" -> <<"</lua", ">">>
      [] tok.kind = "partial" -> <<"<", tok.txt>>

RECURSIVE Flatten(_)
Flatten(toks) ==
    IF toks = <<>> THEN <<>> ELSE Bytes(Head(toks)) \o Flatten(Tail(toks))

\* template: &String, the bytes handed to rewriter.write.
Source(tpl) == Flatten(tpl)

Seg(c) == <<Text("a"), Open(c), Text("b"), Close>>

RECURSIVE FlatTemplates(_)
FlatTemplates(n) ==
    IF n = 0 THEN {<<>>}
    ELSE LET shorter == FlatTemplates(n - 1)
         IN shorter \cup {p \o Seg(c) : p \in shorter, c \in Codes}

NestedTemplates ==
    {<<Open(c1), Text("a"), Open(c2), Text("b"), Close, Text("c"), Close>> :
        c1 \in Codes, c2 \in Codes}

MalformedTemplates ==
    {<<Open(c), Text("a")>> : c \in Codes} \cup {<<Text("a"), Close>>}

Tails == {<<>>, <<Text("z"), Partial>>}

Templates ==
    {p \o t : p \in FlatTemplates(MaxSlots) \cup NestedTemplates \cup MalformedTemplates,
              t \in Tails}

-----------------------------------------------------------------------------
(* The interpreter: globals, the prelude, the scripts of the templates *)

\* The interpreter of the previous render is used again.
ReusedLua(old) == old

\* Lua::new(): none of the names used here is bound in a new interpreter.
\* The argument is the interpreter the previous render of the caller used.
NewLua(old) == [g \in GNames |-> Nil]

\* lua.to_value(&value) with the serializer's default options: an integer
\* becomes a Lua number, a bool a boolean, a string a string, a sequence a
\* table, and None or () the light userdata `null`.
ToLua(v) ==
    CASE v.t = "int" -> Num(v.n)
      [] v.t = "sbool" -> Bool(v.n = 1)
      [] v.t = "sstr" -> Str(v.s)
      [] v.t = "snull" -> Null
      [] v.t = "seq" -> Table(v.s)
      [] OTHER -> Nil

\* Whether lua.to_value(&value) returns Ok.
Convertible(v) == v.t # "bad"

Truthy(v) == ~(v.t = "nil" \/ (v.t = "bool" /\ v.n = 0))
\* a or b
LuaOr(a, b) == IF Truthy(a) THEN a ELSE b

Digit(n) ==
    CASE n = 0 -> "0" [] n = 1 -> "1" [] n = 2 -> "2" [] n = 3 -> "3"
      [] n = 4 -> "4" [] n = 5 -> "5" [] n = 6 -> "6" [] n = 7 -> "7"
      [] n = 8 -> "8" [] n = 9 -> "9"

\* get::<String> takes nil as well.
IsStringyOrNil(v) == v.t \in {"str", "num", "nil"}

\* What globals().get::<String> returns for a string or a (one digit) number.
ToStr(v) == IF v.t = "str" THEN v.s ELSE <<Digit(v.n)>>
\* Whether globals().get::<String> succeeds.
IsStringy(v) == v.t \in {"str", "num"}

\* show clears `data` for nil only.
showNilOnly(v, G) == IF v = Nil THEN [G EXCEPT !["data"] = Str(<<>>)] ELSE G

\* function show(v) if (v or '') == '' then data = '' end end
show(v, G) ==
    IF LuaOr(v, Str(<<>>)) = Str(<<>>) THEN [G EXCEPT !["data"] = Str(<<>>)] ELSE G

\* function hide(v) if (v or '') ~= '' then data = '' end end
hide(v, G) ==
    IF LuaOr(v, Str(<<>>)) # Str(<<>>) THEN [G EXCEPT !["data"] = Str(<<>>)] ELSE G

\* function maybe(v, o) return v or o end
maybe(v, o) == LuaOr(v, o)

\* The characters the class [a-zA-Z_] matches, among those of the templates.
NameChars == {"a", "b", "c", "n", "o", "z", "A", "B", "P", "Q", "_"}

\* The length of the longest run of [a-zA-Z_] that starts the string.
RECURSIVE NameRun(_)
NameRun(s) ==
    IF s = <<>> \/ Head(s) \notin NameChars THEN 0 ELSE 1 + NameRun(Tail(s))

\* The elements a sequence given to each can hold, by identifier.
ItemIds == {"A", "B", "7", "T", "E"}

\* post[key] for the element `id` of the sequence: "A" and "B" have a string
\* under `n`, "7" has a number under `n`, "T" has true under `n`, "E" has no
\* field.
Field(id, key) ==
    IF key # <<"n">> THEN Nil
    ELSE CASE id = "A" -> Str(<<"A">>)
           [] id = "B" -> Str(<<"B">>)
           [] id = "7" -> Num(7)
           [] id = "T" -> Bool(TRUE)
           [] OTHER -> Nil

\* The captures of the matches of '%$([a-zA-Z_]+)' in the string.
RECURSIVE Captures(_)
Captures(s) ==
    IF s = <<>> THEN {}
    ELSE LET n == NameRun(Tail(s))
         IN IF Head(s) = "$" /\ n > 0
            THEN {SubSeq(s, 2, n + 1)} \cup Captures(SubSeq(s, n + 2, Len(s)))
            ELSE Captures(Tail(s))

\* gsub raises "invalid replacement value": post[capture] of some match is
\* neither nil nor false nor a string nor a number.
GsubFails(s, id) ==
    \E key \in Captures(s) : Truthy(Field(id, key)) /\ ~IsStringy(Field(id, key))

\* A match whose capture is not a field of the element is replaced by the
\* empty string.
RECURSIVE GsubDropsMissing(_, _)
GsubDropsMissing(s, id) ==
    IF s = <<>> THEN <<>>
    ELSE LET n == NameRun(Tail(s))
         IN IF Head(s) = "$" /\ n > 0
            THEN LET v == Field(id, SubSeq(s, 2, n + 1))
                 IN (IF IsStringy(v) THEN ToStr(v) ELSE <<>>)
                       \o GsubDropsMissing(SubSeq(s, n + 2, Len(s)), id)
            ELSE <<Head(s)>> \o GsubDropsMissing(Tail(s), id)

\* template:gsub('%$([a-zA-Z_]+)', post): every match, from left to right
\* and as long as it can be, is replaced by post[capture] when that is a
\* string or a number and kept as it is when that is nil.
RECURSIVE Gsub(_, _)
Gsub(s, id) ==
    IF s = <<>> THEN <<>>
    ELSE LET n == NameRun(Tail(s))
         IN IF Head(s) = "$" /\ n > 0
            THEN LET v == Field(id, SubSeq(s, 2, n + 1))
                 IN (IF IsStringy(v) THEN ToStr(v) ELSE SubSeq(s, 1, n + 1))
                       \o Gsub(SubSeq(s, n + 2, Len(s)), id)
            ELSE <<Head(s)>> \o Gsub(Tail(s), id)

\* for _, post in ipairs(k) do data = data .. template:gsub(...) end
RECURSIVE EachCopies(_, _)
EachCopies(template, ids) ==
    IF ids = <<>> THEN <<>>
    ELSE Gsub(template, Head(ids)) \o EachCopies(template, Tail(ids))

\* each without `data = ''`: the copies are appended to the sub-template.
eachAppends(k, G) ==
    IF k.t # "table" \/ G["data"].t # "str"
    THEN [ok |-> FALSE, g |-> G]
    ELSE [ok |-> TRUE,
          g |-> [G EXCEPT !["data"] = Str(G["data"].s \o EachCopies(G["data"].s, k.s))]]

\* function each(k) local template = data; data = ''; for ... end end
\* ipairs fails on a k that cannot be indexed, after data was cleared; gsub
\* fails at the first element that has an invalid replacement value.
each(k, G) ==
    IF k.t # "table" \/ G["data"].t # "str"
    THEN [ok |-> FALSE, g |-> [G EXCEPT !["data"] = Str(<<>>)]]
    ELSE LET failing == {j \in 1..Len(k.s) : GsubFails(G["data"].s, k.s[j])}
             done == IF failing = {} THEN k.s
                     ELSE SubSeq(k.s, 1, (CHOOSE j \in failing :
                                            \A i \in failing : j <= i) - 1)
         IN [ok |-> failing = {},
             g |-> [G EXCEPT !["data"] = Str(EachCopies(G["data"].s, done))]]

\* The statement f(v) for a global f holding `fv`.
CallValue(fv, v, G) ==
    IF fv.t # "fn" THEN [ok |-> FALSE, g |-> G]
    ELSE CASE fv.s = <<"show">> -> [ok |-> TRUE, g |-> show(v, G)]
           [] fv.s = <<"hide">> -> [ok |-> TRUE, g |-> hide(v, G)]
           [] fv.s = <<"each">> -> each(v, G)
           [] OTHER -> [ok |-> TRUE, g |-> G]

\* The expression maybe(v, 'o') for a global maybe holding `fv`.
CallMaybe(fv, v) ==
    IF fv.t # "fn" THEN [ok |-> FALSE, ret |-> Nil]
    ELSE IF fv.s = <<"maybe">> THEN [ok |-> TRUE, ret |-> maybe(v, Str(<<"o">>))]
    ELSE [ok |-> TRUE, ret |-> Nil]

\* lua.load(&e).exec() for the scripts of the templates.
Exec(e, G) ==
    CASE e = "" -> [ok |-> TRUE, g |-> G]
      [] e = "data='P'" -> [ok |-> TRUE, g |-> [G EXCEPT !["data"] = Str(<<"P">>)]]
      [] e = "error()" -> [ok |-> FALSE, g |-> G]
      [] e = "data=x" -> [ok |-> TRUE, g |-> [G EXCEPT !["data"] = G["x"]]]
      [] e = "x='P'" -> [ok |-> TRUE, g |-> [G EXCEPT !["x"] = Str(<<"P">>)]]
      [] e = "show(x)" -> CallValue(G["show"], G["x"], G)
      [] e = "show=nil" -> [ok |-> TRUE, g |-> [G EXCEPT !["show"] = Nil]]
      [] e = "hide(x)" -> CallValue(G["hide"], G["x"], G)
      [] e = "each(items)" -> CallValue(G["each"], G["items"], G)
      [] e = "maybe(x,'o')" ->
            [ok |-> CallMaybe(G["maybe"], G["x"]).ok, g |-> G]
      [] e = "data=maybe(x,'o')" ->
            LET m == CallMaybe(G["maybe"], G["x"])
            IN [ok |-> m.ok,
                g |-> IF m.ok THEN [G EXCEPT !["data"] = m.ret] ELSE G]
      [] e = "data=show" -> [ok |-> TRUE, g |-> [G EXCEPT !["data"] = G["show"]]]
      [] e = "data=items" -> [ok |-> TRUE, g |-> [G EXCEPT !["data"] = G["items"]]]

\* lua.load(v).exec() for one prelude fragment: it defines the global `name`.
LoadFragment(name, G) == [G EXCEPT ![name] = Fn(name)]

RECURSIVE LoadFunctions(_, _)
LoadFunctions(frags, G) ==
    IF frags = <<>> THEN G
    ELSE LoadFunctions(Tail(frags), LoadFragment(Head(frags), G))

\* for (k, v) in env { lua.globals().set(k, v) }
RECURSIVE SetGlobals(_, _)
SetGlobals(env, G) ==
    IF env = <<>> THEN G
    ELSE SetGlobals(Tail(env), [G EXCEPT ![Head(env)[1]] = Head(env)[2]])

-----------------------------------------------------------------------------
(* The rewriter pass of fn render *)

NoResult == [kind |-> "none", out |-> <<>>, msg |-> <<>>]
OkResult(out) == [kind |-> "Ok", out |-> out, msg |-> <<>>]
\* A panic unwinds out of render: the caller gets no Result at all.
PanicResult(msg) == [kind |-> "Panic", out |-> <<>>, msg |-> msg]

IdleRender ==
    [pc |-> "idle", tpl |-> <<>>, todo |-> {}, held |-> "none", env |-> <<>>,
     pos |-> 0, stack |-> <<>>, out |-> <<>>, res |-> NoResult, slots |-> <<>>,
     stale |-> FALSE, before |-> <<>>, prev |-> "none"]

RECURSIVE ByteLen(_, _)
\* Number of bytes of the first n tokens.
ByteLen(tpl, n) == IF n = 0 THEN 0 ELSE ByteLen(tpl, n - 1) + Len(Bytes(tpl[n]))

\* The offset where the open tag starts instead of where it ends.
StartOfOpenTag(tpl, i) == ByteLen(tpl, i - 1)

\* The offset where the close tag ends instead of where it starts.
EndOfCloseTag(tpl, i) == ByteLen(tpl, i)

\* el.source_location().bytes().end of the open tag that is token i.
StartLocation(tpl, i) == ByteLen(tpl, i)
\* end.source_location().bytes().start of the close tag that is token i.
EndLocation(tpl, i) == ByteLen(tpl, i - 1)

\* A tag without code attribute gets a script that assigns `data`.
ExpressionDefaultsToScript(tok) == IF tok.code = NoAttr THEN "data='P'" ELSE tok.code

\* el.get_attribute("code").unwrap_or("".to_string())
Expression(tok) == IF tok.code = NoAttr THEN "" ELSE tok.code

\* source[start_location..end_location]
Slice(src, from, to) == SubSeq(src, from + 1, to)

\* Whether write still has a complete token to consume: an incomplete
\* trailing token stays in the rewriter's buffer.
Consumable(st) == st.pos < Len(st.tpl) /\ st.tpl[st.pos + 1].kind # "partial"

\* A close tag is taken to close the outermost open element.
ClosesOutermost(stack) == 1

\* The open element whose end tag handlers the rewriter calls at a close
\* tag: the innermost one.
Closes(stack) == Len(stack)

\* The script's globals are thrown away with the handle it ran on.
DetachedLua(G, after) == G

\* let lua = lua.clone(): a second handle on the same interpreter, so what
\* the script did to the globals (`after`) is what the interpreter holds.
CloneLua(G, after) == after

\* The end tag handler of the element a close tag closes, at close tag i.
EndTagHandler(st, G, i) ==
    LET top == st.stack[Closes(st.stack)]
        end_location == EndLocation(st.tpl, i)
        html == Slice(Source(st.tpl), top.start, end_location)
        g0 == [G EXCEPT !["data"] = Str(html)]
        x == Exec(top.e, g0)
        data == x.g["data"]
        slot == [open |-> top.open, close |-> i, start |-> top.start,
                 end |-> end_location, html |-> html, e |-> top.e,
                 g0 |-> g0, ok |-> x.ok, data |-> data]
    IN  IF ~x.ok THEN
            [st |-> [st EXCEPT !.pc = "done", !.slots = Append(@, slot),
                               !.res = PanicResult(<<"Invalid Lua expression. ", top.e>>)],
             g |-> CloneLua(G, x.g)]
        ELSE IF ~IsStringy(data) THEN
            [st |-> [st EXCEPT !.pc = "done", !.slots = Append(@, slot),
                               !.res = PanicResult(<<"called Result::unwrap on an Err value">>)],
             g |-> CloneLua(G, x.g)]
        ELSE
            [st |-> [st EXCEPT !.pos = i, !.slots = Append(@, slot),
                               !.stack = SubSeq(@, 1, Closes(@) - 1)
                                           \o SubSeq(@, Closes(@) + 1, Len(@)),
                               !.out = @ \o ToStr(data)],
             g |-> CloneLua(G, x.g)]

\* One token through the rewriter and the element handler.
TokenStep(st, G) ==
    LET i == st.pos + 1
        tok == st.tpl[i]
    IN  CASE tok.kind = "text" ->
                [st |-> [st EXCEPT !.pos = i,
                                   !.out = IF st.stack = <<>> THEN @ \o Bytes(tok) ELSE @],
                 g |-> G]
          [] tok.kind = "open" ->
                [st |-> [st EXCEPT !.pos = i,
                                   !.stack = Append(@, [start |-> StartLocation(st.tpl, i),
                                                        e |-> Expression(tok),
                                                        open |-> i])],
                 g |-> G]
          [] tok.kind = "close" ->
                IF st.stack = <<>>
                THEN [st |-> [st EXCEPT !.pos = i, !.out = @ \o Bytes(tok)], g |-> G]
                ELSE EndTagHandler(st, G, i)

\* rewriter.write has returned: Ok(String::from_utf8(buffer).unwrap()).
\* rewriter.end() is never called.
ReturnBuffer(st) == [st EXCEPT !.pc = "done", !.res = OkResult(st.out)]

-----------------------------------------------------------------------------
(* The engine: Lawl and its Environment *)

\* An entry already under the key is kept.
InsertKeepsFirst(vals, k, v) == IF vals[k] = Absent THEN [vals EXCEPT ![k] = v] ELSE vals

\* values.insert(key, Mutex::new(Box::new(value)))
InsertInto(vals, k, v) == [vals EXCEPT ![k] = v]

\* Removing one entry empties the map.
RemoveClears(vals, k) == [j \in Keys |-> Absent]

\* values.remove(&key)
RemoveFrom(vals, k) == [vals EXCEPT ![k] = Absent]

\* The keys of the HashMap.
Present(vals) == {k \in Keys : vals[k] # Absent}

\* Environment::default(): the names the five prelude fragments define.
DefaultFunctions == <<"show", "hide", "maybe", "format", "each">>

\* Every render works on one interpreter kept by the engine.
LuaShared(r) == "r1"

\* The interpreter render r works on: its own, made by Lua::new().
LuaOf(r) == r

\* insert and remove take &mut self: no render borrows the engine meanwhile.
Quiet == \A r \in Renders : rs[r].pc = "idle"

\* A recorded call of insert or remove: its arguments, what it returned and
\* the Environment it found.
ApiCall(op, k, v) ==
    [op |-> op, key |-> k, val |-> v, ret |-> "Ok", before |-> values,
     fnBefore |-> functions]

\* Lawl::insert
InsertCall(k, v) ==
    /\ Quiet
    /\ values' = InsertInto(values, k, v)
    /\ locks' = [locks EXCEPT ![k] = "free"]
    /\ UNCHANGED <<functions, rs, lua>>

\* Lawl::remove
RemoveCall(k) ==
    /\ Quiet
    /\ values' = RemoveFrom(values, k)
    /\ locks' = [locks EXCEPT ![k] = "free"]
    /\ UNCHANGED <<functions, rs, lua>>

Insert(k, v) == InsertCall(k, v) /\ UNCHANGED <<call, log>>

Remove(k) == RemoveCall(k) /\ UNCHANGED <<call, log>>

\* Lawl::render and the first two lines of <String as Render>::render.
\* `stale` records that the interpreter the caller's previous render used
\* (kept in lua[LuaOf(r)] after that render ended) was not as Lua::new() makes it.
RenderStart(r, t) ==
    /\ rs[r].pc = "idle"
    /\ rs' = [rs EXCEPT ![r] = [IdleRender EXCEPT !.pc = "convert", !.tpl = t,
                                                  !.todo = Present(values),
                                                  !.before = <<values, functions>>,
                                                  !.prev = rs[r].prev,
                                                  !.stale =
                                                     lua[LuaOf(r)] # [g \in GNames |-> Nil]]]
    /\ lua' = [lua EXCEPT ![LuaOf(r)] = NewLua(@)]
    /\ UNCHANGED <<values, functions, locks, call, log>>

\* The guard is never dropped.
StaysLocked(lk, k) == lk

\* The guard is dropped by a panic that unwinds through it.
DroppedInPanic(lk, k) == [lk EXCEPT ![k] = "poisoned"]

\* The MutexGuard of the value under k goes out of scope.
Release(lk, k) == [lk EXCEPT ![k] = "free"]

\* let value = v.lock().unwrap();  for the next entry (k, v) of the HashMap
LockValue(r, k) ==
    /\ rs[r].pc = "convert"
    /\ rs[r].held = "none"
    /\ k \in rs[r].todo
    /\ locks[k] = "free"
    /\ locks' = [locks EXCEPT ![k] = r]
    /\ rs' = [rs EXCEPT ![r].held = k]
    /\ UNCHANGED <<values, functions, lua, call, log>>

\* env.push((k, lua.to_value(&value).unwrap())); the guard is dropped as the
\* loop body ends.
ConvertValue(r) ==
    /\ rs[r].pc = "convert"
    /\ rs[r].held # "none"
    /\ Convertible(values[rs[r].held])
    /\ LET k == rs[r].held
       IN /\ rs' = [rs EXCEPT ![r].env = Append(@, <<k, ToLua(values[k])>>),
                              ![r].todo = @ \ {k},
                              ![r].held = "none"]
          /\ locks' = Release(locks, k)
    /\ UNCHANGED <<values, functions, lua, call, log>>

\* lua.to_value(&value).unwrap() on an Err: the panic unwinds through the
\* guard, which poisons the Mutex of the value.
ConvertFails(r) ==
    /\ rs[r].pc = "convert"
    /\ rs[r].held # "none"
    /\ ~Convertible(values[rs[r].held])
    /\ rs' = [rs EXCEPT ![r].pc = "done", ![r].held = "none",
                        ![r].res = PanicResult(<<"called Result::unwrap on an Err value">>)]
    /\ locks' = [locks EXCEPT ![rs[r].held] = "poisoned"]
    /\ UNCHANGED <<values, functions, lua, call, log>>

\* v.lock().unwrap() on a poisoned Mutex.
LockPoisoned(r, k) ==
    /\ rs[r].pc = "convert"
    /\ rs[r].held = "none"
    /\ k \in rs[r].todo
    /\ locks[k] = "poisoned"
    /\ rs' = [rs EXCEPT ![r].pc = "done",
                        ![r].res = PanicResult(<<"called Result::unwrap on an Err value">>)]
    /\ UNCHANGED <<values, functions, locks, lua, call, log>>

\* for v in &environment.functions { lua.load(v).exec().unwrap(); }
LoadPrelude(r) ==
    /\ rs[r].pc = "convert"
    /\ rs[r].held = "none"
    /\ rs[r].todo = {}
    /\ lua' = [lua EXCEPT ![LuaOf(r)] = LoadFunctions(functions, @)]
    /\ rs' = [rs EXCEPT ![r].pc = "bind"]
    /\ UNCHANGED <<values, functions, locks, call, log>>

\* for (k, v) in env { lua.globals().set(k, v) }
BindGlobals(r) ==
    /\ rs[r].pc = "bind"
    /\ lua' = [lua EXCEPT ![LuaOf(r)] = SetGlobals(rs[r].env, @)]
    /\ rs' = [rs EXCEPT ![r].pc = "rewrite", ![r].env = <<>>]
    /\ UNCHANGED <<values, functions, locks, call, log>>

\* rewriter.write: the next token of the template.
HandleToken(r) ==
    /\ rs[r].pc = "rewrite"
    /\ Consumable(rs[r])
    /\ LET n == TokenStep(rs[r], lua[LuaOf(r)])
       IN /\ rs' = [rs EXCEPT ![r] = n.st]
          /\ lua' = [lua EXCEPT ![LuaOf(r)] = n.g]
    /\ UNCHANGED <<values, functions, locks, call, log>>

\* rewriter.write returns; render returns Ok(buffer).
Finish(r) ==
    /\ rs[r].pc = "rewrite"
    /\ ~Consumable(rs[r])
    /\ rs' = [rs EXCEPT ![r] = ReturnBuffer(@)]
    /\ UNCHANGED <<values, functions, locks, lua, call, log>>

\* The caller has the outcome; the engine is free for the next call.
Return(r) ==
    /\ rs[r].pc = "done"
    /\ rs' = [rs EXCEPT ![r] = IdleRender]
    /\ UNCHANGED <<values, functions, locks, lua, call, log>>

\* How a render that is done has ended: with Ok, with a panic in the end
\* tag handler of a slot, or with a panic before the rewriter ran.
Outcome(st) ==
    IF st.res.kind = "Panic" /\ st.slots # <<>> THEN "SlotPanic" ELSE st.res.kind

\* The same, for a caller that remembers how its previous render ended.
ReturnNoting(r) ==
    /\ rs[r].pc = "done"
    /\ rs' = [rs EXCEPT ![r] = [IdleRender EXCEPT !.prev = Outcome(rs[r])]]
    /\ UNCHANGED <<values, functions, locks, lua, call, log>>

\* Lawl::default()
Init ==
    /\ values = [k \in Keys |-> Absent]
    /\ functions = DefaultFunctions
    /\ locks = [k \in Keys |-> "free"]
    /\ rs = [r \in Renders |-> IdleRender]
    /\ lua = [r \in Renders |-> [g \in GNames |-> Nil]]
    /\ call = [op |-> "default", key |-> "", val |-> Absent, ret |-> "",
               before |-> [k \in Keys |-> Absent], fnBefore |-> DefaultFunctions]
    /\ log = <<>>

\* One caller: calls of insert, remove and render one after the other.
Next ==
    \/ \E a \in InsertArgs : Insert(a[1], a[2])
    \/ \E k \in Keys : Remove(k)
    \/ \E t \in Templates : RenderStart("r1", t)
    \/ \E k \in Keys : LockValue("r1", k)
    \/ ConvertValue("r1")
    \/ LoadPrelude("r1")
    \/ BindGlobals("r1")
    \/ HandleToken("r1")
    \/ Finish("r1")
    \/ Return("r1")

Spec == Init /\ [][Next]_vars

-----------------------------------------------------------------------------
(* One render run alone, from the first line of render to its outcome *)

RECURSIVE EnvVector(_, _)
\* The vector env of <String as Render>::render, in some order of the HashMap.
EnvVector(S, vals) ==
    IF S = {} THEN <<>>
    ELSE LET k == CHOOSE j \in S : TRUE
         IN <<<<k, ToLua(vals[k])>>>> \o EnvVector(S \ {k}, vals)

RECURSIVE RunWrite(_, _)
RunWrite(st, G) ==
    IF st.pc # "rewrite" THEN st
    ELSE IF Consumable(st)
         THEN LET n == TokenStep(st, G) IN RunWrite(n.st, n.g)
         ELSE ReturnBuffer(st)

\* The final state of a render of template t that no other call overlaps.
RenderAlone(t, vals, frags) ==
    RunWrite([IdleRender EXCEPT !.pc = "rewrite", !.tpl = t],
             SetGlobals(EnvVector(Present(vals), vals),
                        LoadFunctions(frags, NewLua([g \in GNames |-> Nil]))))

-----------------------------------------------------------------------------
(* Two threads rendering through one shared &Lawl *)

ConcStores ==
    {[k \in Keys |-> Absent],
     [k \in Keys |-> IF k = "x" THEN SInt(1) ELSE Absent],
     [k \in Keys |-> IF k = "x" THEN SInt(2) ELSE IF k = "show" THEN SInt(1) ELSE Absent]}

ConcTemplates ==
    {Seg("data='P'"), Seg("data=x"), Seg(NoAttr),
     Seg("x='P'") \o Seg("data=x"),
     Seg("show=nil") \o Seg("show(x)"),
     <<Open("data=x"), Text("a"), Open("x='P'"), Text("b"), Close, Close>>}

ConcInit ==
    /\ values \in ConcStores
    /\ functions = DefaultFunctions
    /\ locks = [k \in Keys |-> "free"]
    /\ rs = [r \in Renders |-> IdleRender]
    /\ lua = [r \in Renders |-> [g \in GNames |-> Nil]]
    /\ call = [op |-> "default", key |-> "", val |-> Absent, ret |-> "",
               before |-> values, fnBefore |-> DefaultFunctions]
    /\ log = <<>>

ConcNext ==
    \E r \in Renders :
        \/ \E t \in ConcTemplates : RenderStart(r, t)
        \/ \E k \in Keys : LockValue(r, k)
        \/ ConvertValue(r)
        \/ LoadPrelude(r)
        \/ BindGlobals(r)
        \/ HandleToken(r)
        \/ Finish(r)

ConcSpec == ConcInit /\ [][ConcNext]_vars

\* C4: two renders running concurrently on one Environment do not see each
\* other's `data` or other globals: in every interleaving, the content each
\* slot script of a render was given, what was read back after it, and the
\* outcome of the render are those of the same render run alone.
C4_Isolation ==
    \A r \in Renders :
        rs[r].pc \in {"rewrite", "done"} =>
            LET alone == RenderAlone(rs[r].tpl, values, functions)
            IN /\ Len(rs[r].slots) <= Len(alone.slots)
               /\ rs[r].slots = SubSeq(alone.slots, 1, Len(rs[r].slots))
               /\ rs[r].pc = "done" =>
                     rs[r].res = alone.res /\ rs[r].slots = alone.slots

\* Both renders are inside rewriter.write, each with a slot script already
\* run, and their interpreters hold different `data`.
C4_Witness ==
    /\ \A r \in Renders : rs[r].pc = "rewrite" /\ rs[r].slots # <<>>
    /\ lua["r1"]["data"] # lua["r2"]["data"]

-----------------------------------------------------------------------------
(* One caller whose insert and remove calls are recorded *)

StoreTemplates == {Seg("data=x"), Seg(NoAttr), Seg("show(x)")}

LoggedInsert(k, v) ==
    /\ Len(log) < MaxOps
    /\ InsertCall(k, v)
    /\ call' = ApiCall("insert", k, v)
    /\ log' = Append(log, [op |-> "insert", key |-> k, val |-> v])

LoggedRemove(k) ==
    /\ Len(log) < MaxOps
    /\ RemoveCall(k)
    /\ call' = ApiCall("remove", k, Absent)
    /\ log' = Append(log, [op |-> "remove", key |-> k, val |-> Absent])

StoreNext ==
    \/ \E a \in LoggedInsertArgs : LoggedInsert(a[1], a[2])
    \/ \E k \in Keys : LoggedRemove(k)
    \/ \E t \in StoreTemplates : RenderStart("r1", t)
    \/ \E k \in Keys : LockValue("r1", k)
    \/ ConvertValue("r1")
    \/ LoadPrelude("r1")
    \/ BindGlobals("r1")
    \/ HandleToken("r1")
    \/ Finish("r1")
    \/ Return("r1")

StoreSpec == Init /\ [][StoreNext]_vars

RECURSIVE LastInsert(_, _)
\* The value of the most recent insert under k that no remove of k followed.
LastInsert(lg, k) ==
    IF lg = <<>> THEN Absent
    ELSE LET e == lg[Len(lg)]
         IN IF e.key = k
            THEN IF e.op = "insert" THEN e.val ELSE Absent
            ELSE LastInsert(SubSeq(lg, 1, Len(lg) - 1), k)

-----------------------------------------------------------------------------
(* The prelude functions, called by the script of a slot of one render *)

\* The characters between the tags of a slot that calls each.
EachChars == {"$", "n", "!"}

RECURSIVE Strings(_)
\* The strings of at most n characters of EachChars.
Strings(n) ==
    IF n = 0 THEN {<<>>}
    ELSE LET shorter == Strings(n - 1)
         IN shorter \cup {Append(w, c) : w \in shorter, c \in EachChars}

RECURSIVE ItemLists(_)
\* The sequences of at most n elements.
ItemLists(n) ==
    IF n = 0 THEN {<<>>}
    ELSE LET shorter == ItemLists(n - 1)
         IN shorter \cup {Append(l, id) : l \in shorter, id \in ItemIds}

\* The values inserted under "x".
XValues == {SBool(FALSE), SBool(TRUE), SStr(<<>>), SStr(<<"Q">>), SInt(1), SNull}

NoValues == [k \in Keys |-> Absent]

\* The stores of the renders: empty, one value under "x", or one sequence
\* under "items".
PreludeStores ==
    {NoValues}
    \cup {[NoValues EXCEPT !["x"] = v] : v \in XValues}
    \cup {[NoValues EXCEPT !["items"] = SList(l)] : l \in ItemLists(MaxItems)}

TextTokens(w) == [j \in 1..Len(w) |-> Text(w[j])]

PreludeCalls == {"show(x)", "hide(x)", "maybe(x,'o')", "data=maybe(x,'o')"}

PreludeTemplates ==
    {<<Open("each(items)")>> \o TextTokens(w) \o <<Close>> : w \in Strings(MaxText)}
    \cup {<<Open(e)>> \o d \o <<Close>> : e \in PreludeCalls, d \in {<<>>, <<Text("b")>>}}
    \cup {Seg(e) \o Seg("data='P'") : e \in {"data=x", "data=show", "data=items"}}

PreludeInit ==
    /\ values \in PreludeStores
    /\ functions = DefaultFunctions
    /\ locks = [k \in Keys |-> "free"]
    /\ rs = [r \in Renders |-> IdleRender]
    /\ lua = [r \in Renders |-> [g \in GNames |-> Nil]]
    /\ call = [op |-> "default", key |-> "", val |-> Absent, ret |-> "",
               before |-> [k \in Keys |-> Absent], fnBefore |-> DefaultFunctions]
    /\ log = <<>>

PreludeNext ==
    \/ \E t \in PreludeTemplates : RenderStart("r1", t)
    \/ \E k \in Keys : LockValue("r1", k)
    \/ ConvertValue("r1")
    \/ LoadPrelude("r1")
    \/ BindGlobals("r1")
    \/ HandleToken("r1")
    \/ Finish("r1")

PreludeSpec == PreludeInit /\ [][PreludeNext]_vars

-----------------------------------------------------------------------------
(* One caller whose renders can panic, and who renders again afterwards *)

AbortInsertArgs == {<<"x", SInt(1)>>, <<"x", SBad>>}

AbortTemplates ==
    {Seg("error()"), Seg("data=x"), Seg("data='P'"), Seg("data='P'") \o Seg("error()")}

AbortNext ==
    \/ \E a \in AbortInsertArgs : Insert(a[1], a[2])
    \/ Remove("x")
    \/ \E t \in AbortTemplates : RenderStart("r1", t)
    \/ \E k \in Keys : LockValue("r1", k)
    \/ \E k \in Keys : LockPoisoned("r1", k)
    \/ ConvertValue("r1")
    \/ ConvertFails("r1")
    \/ LoadPrelude("r1")
    \/ BindGlobals("r1")
    \/ HandleToken("r1")
    \/ Finish("r1")
    \/ ReturnNoting("r1")

\* The steps of a render that has been called: render is one sequential
\* function, which runs on until it returns or panics.
AbortRender ==
    \/ \E k \in Keys : LockValue("r1", k)
    \/ \E k \in Keys : LockPoisoned("r1", k)
    \/ ConvertValue("r1")
    \/ ConvertFails("r1")
    \/ LoadPrelude("r1")
    \/ BindGlobals("r1")
    \/ HandleToken("r1")
    \/ Finish("r1")

AbortSpec == Init /\ [][AbortNext]_vars /\ WF_vars(AbortRender)

-----------------------------------------------------------------------------
(* Claims *)

NoReservedTag(tpl) == \A i \in 1..Len(tpl) : tpl[i].kind \notin {"open", "close"}

\* C1: a template without any <lua> tag renders to Ok(t), byte for byte,
\* the last bytes included, whatever the Environment holds.
C1_Identity ==
    \A r \in Renders :
        rs[r].pc = "done" /\ NoReservedTag(rs[r].tpl) =>
            rs[r].res = OkResult(Source(rs[r].tpl))

RECURSIVE TagDepths(_, _)
\* The nesting depth after each token, the tags counted as they come.
TagDepths(tpl, d) ==
    IF tpl = <<>> THEN <<>>
    ELSE LET tok == Head(tpl)
             d1 == CASE tok.kind = "open" -> d + 1
                     [] tok.kind = "close" -> d - 1
                     [] OTHER -> d
         IN <<d1>> \o TagDepths(Tail(tpl), d1)

\* Every <lua> is closed, none is nested, no </lua> is stray.
FlatAndClosed(tpl) ==
    LET ds == TagDepths(tpl, 0)
    IN /\ \A i \in 1..Len(ds) : ds[i] \in {0, 1}
       /\ tpl # <<>> => ds[Len(ds)] = 0

RECURSIVE Spliced(_, _, _, _)
\* The template from token i on, each span from an open tag through its close
\* tag replaced by the `data` read back after that slot's script.
Spliced(tpl, i, slots, inside) ==
    IF i > Len(tpl) THEN <<>>
    ELSE LET tok == tpl[i]
         IN CASE tok.kind = "open" ->
                    LET s == CHOOSE s \in {slots[j] : j \in 1..Len(slots)} : s.open = i
                    IN ToStr(s.data) \o Spliced(tpl, i + 1, slots, TRUE)
              [] tok.kind = "close" -> Spliced(tpl, i + 1, slots, FALSE)
              [] OTHER ->
                    (IF inside THEN <<>> ELSE Bytes(tok)) \o Spliced(tpl, i + 1, slots, inside)

\* C2: for a template whose <lua> tags are not nested, the output is the
\* template with every open-tag-through-close-tag span replaced by the `data`
\* of that slot after its script, every other byte unchanged and in order.
C2_SpliceInPlace ==
    \A r \in Renders :
        /\ rs[r].pc = "done" /\ rs[r].res.kind = "Ok"
        /\ rs[r].slots # <<>> /\ FlatAndClosed(rs[r].tpl)
        => rs[r].res.out = Spliced(rs[r].tpl, 1, rs[r].slots, FALSE)

\* C3: when a slot script raises an error the render returns a ScriptError
\* result that contains the script's code, runs no later slot script and
\* returns no output.
C3_ScriptError ==
    \A r \in Renders :
        \A j \in 1..Len(rs[r].slots) :
            ~rs[r].slots[j].ok =>
                /\ rs[r].pc = "done"
                /\ rs[r].res.kind = "Err"
                /\ \E n \in 1..Len(rs[r].res.msg) : rs[r].res.msg[n] = rs[r].slots[j].e
                /\ rs[r].res.out = <<>>
                /\ j = Len(rs[r].slots)

\* What a new interpreter holds under g once the prelude is loaded and the
\* store `vals` is bound.
SeededGlobal(vals, g) ==
    IF g \in Keys /\ vals[g] # Absent THEN ToLua(vals[g])
    ELSE IF g \in PreludeNames THEN Fn(g) ELSE Nil

\* C5: no global of an earlier render is visible in a later one: when the
\* rewriter pass of a render starts, the interpreter holds the prelude and the
\* values now in the Environment and nothing else.
C5_FreshInterpreter ==
    \A r \in Renders :
        rs[r].pc = "rewrite" /\ rs[r].pos = 0 =>
            \A g \in GNames : lua[LuaOf(r)][g] = SeededGlobal(values, g)

\* A render starts its rewriter pass after an earlier render left globals
\* behind, among them x, which the Environment does not hold.
C5_Witness ==
    /\ rs["r1"].pc = "rewrite" /\ rs["r1"].pos = 0
    /\ rs["r1"].stale
    /\ values["x"] = Absent

\* C6 as stated: the first slot script of a render finds under every key the
\* value of the most recent insert that no remove followed, and nil under a
\* key that was removed or never inserted.
C6_BindsStoreEveryKey ==
    \A r \in Renders :
        rs[r].slots # <<>> =>
            \A k \in Keys :
                rs[r].slots[1].g0[k] =
                    IF LastInsert(log, k) # Absent THEN ToLua(LastInsert(log, k)) ELSE Nil

\* C6, amended: the first slot script of a render finds, under every key but
\* `data`, the value of the most recent insert that no remove followed; under
\* a key that was removed or never inserted it finds nil, or the prelude
\* function when the key is the name of one.
C6_BindsStore ==
    \A r \in Renders :
        rs[r].slots # <<>> =>
            \A k \in Keys \ {"data"} :
                rs[r].slots[1].g0[k] =
                    IF LastInsert(log, k) # Absent THEN ToLua(LastInsert(log, k))
                    ELSE IF k \in PreludeNames THEN Fn(k) ELSE Nil

\* insert("x", 1); insert("x", 2); then a render whose first script finds x = 2.
C6_Witness ==
    /\ Len(log) >= 2
    /\ \E i \in 1..(Len(log) - 1) :
          /\ log[i] = [op |-> "insert", key |-> "x", val |-> SInt(1)]
          /\ log[i + 1] = [op |-> "insert", key |-> "x", val |-> SInt(2)]
    /\ LastInsert(log, "x") = SInt(2)
    /\ rs["r1"].slots # <<>>
    /\ rs["r1"].slots[1].g0["x"] = Num(2)

\* C7: insert and remove return Ok; insert changes only the entry under its
\* key, remove deletes only the entry under its key, remove of an absent key
\* changes nothing, and neither changes the prelude fragments.
C7_StoreFrame ==
    /\ call.op = "insert" =>
          /\ call.ret = "Ok"
          /\ values[call.key] = call.val
          /\ \A j \in Keys \ {call.key} : values[j] = call.before[j]
          /\ functions = call.fnBefore
    /\ call.op = "remove" =>
          /\ call.ret = "Ok"
          /\ values[call.key] = Absent
          /\ \A j \in Keys \ {call.key} : values[j] = call.before[j]
          /\ call.before[call.key] = Absent => values = call.before
          /\ functions = call.fnBefore

\* remove of a key that is absent while another key is present.
C7_Witness ==
    /\ call.op = "remove"
    /\ call.before[call.key] = Absent
    /\ \E j \in Keys : values[j] # Absent

\* The slots of a render that enclose another slot, with the enclosed one.
NestedPairs(st) ==
    {<<o, n>> \in (1..Len(st.slots)) \X (1..Len(st.slots)) :
        st.slots[o].open < st.slots[n].open /\ st.slots[n].close < st.slots[o].close}

\* C8 as stated: the content captured for an outer slot holds, in place of
\* the inner open-tag-through-close-tag span, the inner script's `data`.
C8_OuterSeesInnerResult ==
    \A r \in Renders :
        \A p \in NestedPairs(rs[r]) :
            LET o == rs[r].slots[p[1]]
                n == rs[r].slots[p[2]]
            IN o.html = Flatten(SubSeq(rs[r].tpl, o.open + 1, n.open - 1))
                        \o ToStr(n.data)
                        \o Flatten(SubSeq(rs[r].tpl, n.close + 1, o.close - 1))

\* C8, amended: the content captured for an outer slot is the text of the
\* original template between the outer open tag and the outer close tag: the
\* inner span is in it as the original inner markup.
C8_OuterSeesOriginal ==
    \A r \in Renders :
        \A p \in NestedPairs(rs[r]) :
            LET o == rs[r].slots[p[1]]
                n == rs[r].slots[p[2]]
            IN o.html = Flatten(SubSeq(rs[r].tpl, o.open + 1, n.open - 1))
                        \o Bytes(rs[r].tpl[n.open])
                        \o n.html
                        \o Bytes(rs[r].tpl[n.close])
                        \o Flatten(SubSeq(rs[r].tpl, n.close + 1, o.close - 1))

\* An outer slot script has run after an inner one whose `data` is not its
\* original content.
C8_Witness ==
    \E p \in NestedPairs(rs["r1"]) :
        /\ rs["r1"].slots[p[2]].data = Str(<<"P">>)
        /\ rs["r1"].slots[p[1]].ok

\* The open tag of the element the next token closes.
ClosingOpenTag(st) == st.tpl[st.stack[Len(st.stack)].open]

AtCloseOfNoCodeTag(st) ==
    /\ st.pc = "rewrite"
    /\ Consumable(st)
    /\ st.tpl[st.pos + 1].kind = "close"
    /\ st.stack # <<>>
    /\ ClosingOpenTag(st).code = NoAttr

AtNoCodeOpenTag(st) ==
    /\ st.pc = "rewrite"
    /\ Consumable(st)
    /\ st.tpl[st.pos + 1] = Open(NoAttr)

C10_PreludeBound ==
    \A r \in Renders :
        rs[r].slots # <<>> =>
            \A f \in PreludeNames : rs[r].slots[1].g0[f] = Fn(f)

-----------------------------------------------------------------------------
(* Order of the scripts of one render *)

RECURSIVE OpenTags(_, _)
\* The open tags among the first n tokens that no close tag among them closes,
\* outermost first.
OpenTags(tpl, n) ==
    IF n = 0 THEN <<>>
    ELSE LET before == OpenTags(tpl, n - 1)
         IN CASE tpl[n].kind = "open" -> Append(before, n)
              [] tpl[n].kind = "close" /\ before # <<>> ->
                    SubSeq(before, 1, Len(before) - 1)
              [] OTHER -> before

\* The close tags of the template that close an open tag.
MatchedCloses(tpl) ==
    {i \in 1..Len(tpl) : tpl[i].kind = "close" /\ OpenTags(tpl, i - 1) # <<>>}

\* The open tag that the close tag i closes.
MatchOf(tpl, i) == OpenTags(tpl, i - 1)[Len(OpenTags(tpl, i - 1))]

\* The last close tag whose script was started.
LastStarted(st) ==
    IF st.res.kind = "Panic" /\ st.slots # <<>>
    THEN st.slots[Len(st.slots)].close ELSE st.pos

\* C11: within one render the scripts run in the order of their close tags
\* in the template, each once: the j-th script started is the script of
\* the open tag that the j-th close tag closes, so the script of an inner
\* tag runs before the script of the tag around it.
C11_CloseTagOrder ==
    \A r \in Renders :
        LET st == rs[r]
            sl == st.slots
            started == {i \in MatchedCloses(st.tpl) : i <= LastStarted(st)}
        IN /\ Len(sl) = Cardinality(started)
           /\ \A j \in 1..Len(sl) :
                 /\ sl[j].close \in started
                 /\ sl[j].open = MatchOf(st.tpl, sl[j].close)
                 /\ sl[j].e = Expression(st.tpl[sl[j].open])
           /\ \A j, k \in 1..Len(sl) :
                 /\ j < k => sl[j].close < sl[k].close
                 /\ (sl[j].open < sl[k].open /\ sl[k].close < sl[j].close) => k < j

\* Both scripts of a nested pair have run, with different scripts.
C11_Witness ==
    \E r \in Renders :
        /\ Len(rs[r].slots) = 2
        /\ rs[r].slots[2].open < rs[r].slots[1].open
        /\ rs[r].slots[1].close < rs[r].slots[2].close
        /\ rs[r].slots[1].e # rs[r].slots[2].e
        /\ rs[r].res.kind = "Ok"

-----------------------------------------------------------------------------
(* What a script finds in `data` *)

\* The bytes of the tokens from..to of the template.
BytesOf(tpl, from, to) == Flatten(SubSeq(tpl, from, to))

\* C12: for every slot of every render the start offset is the end of the
\* open tag, the end offset the start of the close tag, start <= end, and
\* when the script starts `data` is the string of the bytes of the original
\* template between the two, whatever the store holds under `data` and
\* whatever earlier scripts of the render assigned to `data`.
C12_DataIsSlotContent ==
    \A r \in Renders :
        \A j \in 1..Len(rs[r].slots) :
            LET s == rs[r].slots[j]
                tpl == rs[r].tpl
            IN /\ s.start <= s.end
               /\ s.start = Len(BytesOf(tpl, 1, s.open))
               /\ s.end = Len(BytesOf(tpl, 1, s.close - 1))
               /\ s.g0["data"] = Str(BytesOf(tpl, s.open + 1, s.close - 1))

\* The store has an entry `data`, the first script assigned another string
\* to `data`, and the second script has started.
C12_Witness ==
    \E r \in Renders :
        /\ Len(rs[r].slots) = 2
        /\ values["data"] # Absent
        /\ rs[r].slots[1].e = "data='P'"
        /\ rs[r].slots[1].data = Str(<<"P">>)
        /\ rs[r].slots[2].g0["data"] = Str(<<"b">>)

-----------------------------------------------------------------------------
(* Value locks *)

\* The value locks a render holds.
LocksOf(r) == {k \in Keys : locks[k] = r}

\* The render has converted every value: it loads the prelude, binds the
\* globals or runs the rewriter with the scripts, or it has ended.
PastConversion(r) ==
    \/ rs[r].pc \in {"bind", "rewrite", "done"}
    \/ rs[r].pc = "convert" /\ rs[r].todo = {}

\* C13: a render holds the lock of a value only while it converts that
\* value: it holds at most one lock, the lock of the value it is converting,
\* and none once the values are converted (while the prelude is loaded,
\* the globals are bound and the scripts run).
C13_LockOnlyWhileConverting ==
    \A r \in Renders :
        /\ Cardinality(LocksOf(r)) <= 1
        /\ LocksOf(r) = IF rs[r].held = "none" THEN {} ELSE {rs[r].held}
        /\ LocksOf(r) # {} => rs[r].pc = "convert" /\ rs[r].held \in rs[r].todo
        /\ PastConversion(r) => LocksOf(r) = {}

\* A render with two values to convert holds the lock of its second value,
\* while the other render runs its scripts.
C13_Witness ==
    \E r, o \in Renders :
        /\ LocksOf(r) # {}
        /\ rs[r].env # <<>>
        /\ rs[o].pc = "rewrite"
        /\ rs[o].slots # <<>>

-----------------------------------------------------------------------------
(* The prelude functions *)

\* nil, false or the empty string.
Blank(v) == v \in {Nil, Bool(FALSE), Str(<<>>)}

\* nil, a boolean, a string or a number.
Scalar(v) == v.t \in {"nil", "bool", "str", "num"}

\* C14: for v nil, false, true, an empty or non-empty string or a number and
\* any `data`, show(v) makes `data` the empty string exactly when v is nil,
\* false or the empty string and leaves it as it is otherwise; hide(v)
\* clears `data` exactly when show(v) leaves it and leaves it exactly when
\* show(v) clears it.
C14_ShowHide ==
    \A r \in Renders :
        \A j \in 1..Len(rs[r].slots) :
            LET s == rs[r].slots[j]
                v == s.g0["x"]
            IN /\ (s.e = "show(x)" /\ s.g0["show"] = Fn("show") /\ Scalar(v)) =>
                     /\ s.ok
                     /\ s.data = IF Blank(v) THEN Str(<<>>) ELSE s.g0["data"]
               /\ (s.e = "hide(x)" /\ s.g0["hide"] = Fn("hide") /\ Scalar(v)) =>
                     /\ s.ok
                     /\ s.data = IF Blank(v) THEN s.g0["data"] ELSE Str(<<>>)

\* show(false) has cleared a non-empty `data`.
C14_Witness ==
    \E r \in Renders :
        \E j \in 1..Len(rs[r].slots) :
            /\ rs[r].slots[j].e = "show(x)"
            /\ rs[r].slots[j].g0["x"] = Bool(FALSE)
            /\ rs[r].slots[j].g0["data"] = Str(<<"b">>)
            /\ rs[r].slots[j].data = Str(<<>>)
            /\ rs[r].res.kind = "Ok"

\* The sub-template cut into its pieces: a token `$name` (name as long as
\* it can be) or one other character.
RECURSIVE Pieces(_)
Pieces(T) ==
    IF T = <<>> THEN <<>>
    ELSE LET n == NameRun(Tail(T))
         IN IF Head(T) = "$" /\ n > 0
            THEN <<[name |-> SubSeq(T, 2, n + 1), lit |-> <<>>]>>
                    \o Pieces(SubSeq(T, n + 2, Len(T)))
            ELSE <<[name |-> <<>>, lit |-> <<Head(T)>>]>> \o Pieces(Tail(T))

\* The names of the tokens of the sub-template.
TokenNames(T) == {Pieces(T)[j].name : j \in 1..Len(Pieces(T))} \ {<<>>}

\* What a piece becomes for the element `id`; `missing` is what a token
\* becomes whose name is not a field of the element: "empty" or "kept".
PieceFor(p, id, missing) ==
    IF p.name = <<>> THEN p.lit
    ELSE IF Field(id, p.name) # Nil THEN ToStr(Field(id, p.name))
    ELSE IF missing = "kept" THEN <<"$">> \o p.name
    ELSE <<>>

RECURSIVE CopyFor(_, _, _)
\* The copy of the pieces for the element `id`.
CopyFor(ps, id, missing) ==
    IF ps = <<>> THEN <<>>
    ELSE PieceFor(Head(ps), id, missing) \o CopyFor(Tail(ps), id, missing)

RECURSIVE Concatenation(_, _, _)
\* The copies of T for the elements, in the order of the elements.
Concatenation(T, ids, missing) ==
    IF ids = <<>> THEN <<>>
    ELSE CopyFor(Pieces(T), Head(ids), missing) \o Concatenation(T, Tail(ids), missing)

\* Every token of T names a field of every element.
HasEveryField(T, ids) ==
    \A j \in 1..Len(ids) : \A nm \in TokenNames(T) : Field(ids[j], nm) # Nil

\* The fields of the elements that the tokens of T name are strings or
\* numbers.
TextFields(T, ids) ==
    \A j \in 1..Len(ids) : \A nm \in TokenNames(T) :
        Field(ids[j], nm) # Nil => IsStringy(Field(ids[j], nm))

\* The slot record is of a call of the prelude's each on a sequence.
EachOnSequence(s) ==
    /\ s.e = "each(items)"
    /\ s.g0["each"] = Fn("each")
    /\ s.g0["items"].t = "table"

\* C15, as claimed: each(items) with `data` = T and items a sequence of n
\* mappings that have the fields T names sets `data` to the n copies of T,
\* in the order of the elements, each with every token `$name` replaced by
\* the field `name` of its element, whatever the field holds.
C15_EachReplacesByAnyField ==
    \A r \in Renders :
        \A j \in 1..Len(rs[r].slots) :
            LET s == rs[r].slots[j]
                ids == s.g0["items"].s
            IN (EachOnSequence(s) /\ HasEveryField(s.html, ids)) =>
                  /\ s.ok
                  /\ s.data = Str(Concatenation(s.html, ids, "empty"))

\* C15, amended: when the fields T names are strings or numbers, each(items)
\* sets `data` to the n copies of T, in the order of the elements, each with
\* every token `$name` replaced by the field `name` of its element (a number
\* as its decimal text); for the empty sequence `data` becomes the empty
\* string. When T names a field of an element that holds true, the script
\* fails.
C15_EachConcatenates ==
    \A r \in Renders :
        \A j \in 1..Len(rs[r].slots) :
            LET s == rs[r].slots[j]
                ids == s.g0["items"].s
            IN /\ (EachOnSequence(s) /\ HasEveryField(s.html, ids)
                                      /\ TextFields(s.html, ids)) =>
                     /\ s.ok
                     /\ s.data = Str(Concatenation(s.html, ids, "empty"))
                     /\ ids = <<>> => s.data = Str(<<>>)
               /\ (EachOnSequence(s) /\ ~TextFields(s.html, ids)) => ~s.ok

\* each has made "A!7!" of the sub-template "$n!" and two elements, one
\* with a string and one with a number under `n`.
C15_Witness ==
    \E r \in Renders :
        \E j \in 1..Len(rs[r].slots) :
            /\ EachOnSequence(rs[r].slots[j])
            /\ rs[r].slots[j].html = <<"$", "n", "!">>
            /\ rs[r].slots[j].g0["items"].s = <<"A", "7">>
            /\ rs[r].slots[j].data = Str(<<"A", "!", "7", "!">>)
            /\ rs[r].res.kind = "Ok"

\* C16, as claimed: a token `$name` whose field is absent from the current
\* element is replaced by the empty string in that element's copy (the
\* fields that are present being strings or numbers).
C16_AbsentFieldEmpty ==
    \A r \in Renders :
        \A j \in 1..Len(rs[r].slots) :
            LET s == rs[r].slots[j]
                ids == s.g0["items"].s
            IN (EachOnSequence(s) /\ ~HasEveryField(s.html, ids)
                                     /\ TextFields(s.html, ids)) =>
                  /\ s.ok
                  /\ s.data = Str(Concatenation(s.html, ids, "empty"))

\* C16, amended: a token `$name` whose field is absent from the current
\* element stays in that element's copy as it is, `$` and name; the other
\* tokens of the copy are replaced by their fields (strings or numbers).
C16_AbsentFieldKept ==
    \A r \in Renders :
        \A j \in 1..Len(rs[r].slots) :
            LET s == rs[r].slots[j]
                ids == s.g0["items"].s
            IN (EachOnSequence(s) /\ ~HasEveryField(s.html, ids)
                                     /\ TextFields(s.html, ids)) =>
                  /\ s.ok
                  /\ s.data = Str(Concatenation(s.html, ids, "kept"))

\* each has run on "$n!" with an element that has the field and one that
\* has not.
C16_Witness ==
    \E r \in Renders :
        \E j \in 1..Len(rs[r].slots) :
            /\ EachOnSequence(rs[r].slots[j])
            /\ rs[r].slots[j].html = <<"$", "n", "!">>
            /\ rs[r].slots[j].g0["items"].s = <<"A", "E">>
            /\ rs[r].slots[j].data = Str(<<"A", "!", "$", "n", "!">>)
            /\ rs[r].res.kind = "Ok"

\* C17: maybe(v, 'o') is v when v is truthy and 'o' otherwise, for v nil,
\* a boolean, a number, a string, or the global bound for a null value of
\* the store (which is to count as not truthy), and a call of maybe leaves
\* `data` as it was.
C17_MaybeOfScalarOrNull ==
    \A r \in Renders :
        \A j \in 1..Len(rs[r].slots) :
            LET s == rs[r].slots[j]
                v == s.g0["x"]
            IN s.g0["maybe"] = Fn("maybe") =>
                 /\ s.e = "data=maybe(x,'o')" =>
                       /\ s.ok
                       /\ s.data = IF v \in {Nil, Bool(FALSE), Null}
                                   THEN Str(<<"o">>) ELSE v
                 /\ s.e = "maybe(x,'o')" => s.ok /\ s.data = s.g0["data"]

-----------------------------------------------------------------------------
(* One interpreter for the slots of a render *)

\* C18: the slots of a render share one interpreter: apart from `data`,
\* every global is, when the script of a slot starts, what the script of
\* the slot before it left, a redefined prelude function and a reassigned
\* global of the store included.
C18_SlotsShareGlobals ==
    \A r \in Renders :
        \A j \in 1..(Len(rs[r].slots) - 1) :
            \A g \in GNames \ {"data"} :
                rs[r].slots[j + 1].g0[g]
                    = Exec(rs[r].slots[j].e, rs[r].slots[j].g0).g[g]

\* The second script finds the string the first script assigned to x, a
\* global the store had bound to a number.
C18_Witness ==
    \E r \in Renders :
        /\ Len(rs[r].slots) = 2
        /\ values["x"] = SInt(1)
        /\ rs[r].slots[1].e = "x='P'"
        /\ rs[r].slots[1].g0["x"] = Num(1)
        /\ rs[r].slots[2].g0["x"] = Str(<<"P">>)

-----------------------------------------------------------------------------
(* After a render that panicked in a slot *)

\* The render has panicked in the end tag handler of a slot.
AbortedInSlot(r) == rs[r].pc = "done" /\ Outcome(rs[r]) = "SlotPanic"

\* The caller's previous render panicked in a slot, and the caller has
\* called render with a template whose script succeeds on a store whose
\* values can be converted.
RendersAgain(r) ==
    /\ rs[r].prev = "SlotPanic"
    /\ rs[r].pc = "convert"
    /\ \A k \in Keys : Convertible(values[k])
    /\ \/ rs[r].tpl = Seg("data='P'")
       \/ rs[r].tpl = Seg("data=x") /\ values["x"] = SInt(1)

\* The output of the template of RendersAgain.
GoodOutput(r) ==
    IF rs[r].tpl = Seg("data='P'") THEN <<"a", "P">> ELSE <<"a", "1">>

\* In a state: a render that panicked in a slot has left the store and the
\* prelude as they were when it was called and every value lock free, not
\* held and not poisoned; a render called after it finds no lock poisoned
\* and panics only for a reason of its own.
AbortLeavesEngine ==
    \A r \in Renders :
        /\ AbortedInSlot(r) =>
              /\ <<values, functions>> = rs[r].before
              /\ \A k \in Keys : locks[k] = "free"
        /\ (rs[r].prev = "SlotPanic" /\ rs[r].pc = "convert") =>
              \A k \in rs[r].todo : locks[k] # "poisoned"
        /\ (rs[r].prev = "SlotPanic" /\ rs[r].pc = "done"
                                     /\ rs[r].res.kind = "Panic") =>
              \/ rs[r].slots # <<>>
              \/ \E k \in Keys : ~Convertible(values[k])

\* C19: a render that aborts because the script of a slot failed leaves
\* the Environment as it was before the call, with every value lock
\* released and none poisoned, and a later render of a template whose
\* scripts succeed completes and returns its output.
C19_AbortLeavesEngineUsable ==
    /\ []AbortLeavesEngine
    /\ \A r \in {"r1"} :
          RendersAgain(r) ~> (rs[r].pc = "done" /\ rs[r].res = OkResult(GoodOutput(r)))

\* After a render that panicked in a script, with a value in the store, a
\* later render has returned its output.
C19_Witness ==
    /\ rs["r1"].prev = "SlotPanic"
    /\ rs["r1"].pc = "done"
    /\ rs["r1"].res = OkResult(<<"a", "1">>)
    /\ values["x"] = SInt(1)

-----------------------------------------------------------------------------
(* A script that leaves `data` neither a string nor a number *)

\* The script of the slot ended without error and left in `data` a value
\* that is neither a string nor a number.
LeftBadData(s) == s.ok /\ s.data.t \notin {"str", "num"}

\* C20: when the script of a slot ends without error with `data` bound to
\* nil, a boolean, a table, a function or another value that is neither a
\* string nor a number, the render aborts at that slot and returns no
\* output: the step that runs the script adds nothing to the output, and
\* the slot stays the last whose script ran.
C20_BadDataAborts ==
    [][\A r \in Renders :
          \A j \in 1..Len(rs'[r].slots) :
              LeftBadData(rs'[r].slots[j]) =>
                 /\ j = Len(rs'[r].slots)
                 /\ rs'[r].pc = "done"
                 /\ rs'[r].res = PanicResult(<<"called Result::unwrap on an Err value">>)
                 /\ rs'[r].pos < rs'[r].slots[j].close
                 /\ Len(rs[r].slots) < j => rs'[r].out = rs[r].out]_vars

\* The first script of a template with two slots left a function in `data`:
\* the render has panicked with the text before the slot as its output so
\* far.
C20_Witness ==
    \E r \in Renders :
        /\ rs[r].tpl = Seg("data=show") \o Seg("data='P'")
        /\ Len(rs[r].slots) = 1
        /\ rs[r].slots[1].data = Fn("show")
        /\ rs[r].out = <<"a">>
        /\ rs[r].res.kind = "Panic"

====
